---- MODULE Spec2Model ----
(***************************************************************************)
(* code-atlas: the analysis engine of src/code_analyzer.py                 *)
(* (GitIgnoreParser and CodeAnalyzer) as a state machine.                  *)
(*                                                                         *)
(* Representation of text.  A Python string that is cut at '.' and '/' by  *)
(* the code is kept in cut form, so that the cutting and joining the code  *)
(* does is computed, not assumed:                                          *)
(*   - a string without '/' is the sequence of its '.'-separated           *)
(*     components (s.split('.')): "mod.py" is <<"mod","py">>, the empty    *)
(*     string is <<"">>, ".x" is <<"","x">>, ".." is <<"","","">>.         *)
(*     '.'.join(l) is l itself for a non-empty list l and <<"">> for [].   *)
(*   - a relative path is the sequence of its '/'-separated segments, each *)
(*     a string as above: "pkg/mod.py" is <<<<"pkg">>, <<"mod","py">>>>.   *)
(*     The project root itself (Path('.')) is <<>>.                        *)
(*   - None is <<>> (no string is the empty sequence).                     *)
(*   - a function key "file::Class.name" / "file::name" is the triple      *)
(*     <<file, Class, name>> with Class = "" when there is no class.       *)
(* Paths use the POSIX separator (os.sep = '/').                           *)
(***************************************************************************)
EXTENDS Integers, Sequences, FiniteSets, TLC

VARIABLES
    project_root,     \* CodeAnalyzer.project_root: the segments of the root's own location
    fs,               \* the file system below the root: the set of relative file paths
    source,           \* file contents as parsed by ast.parse: py path -> sequence of nodes
    gitignore_files,  \* the .gitignore files in rglob order: <<[dir, lines]>>
    patterns,         \* GitIgnoreParser.patterns
    pc,               \* position inside analyze() / the driver
    stack,            \* walk_directory recursion: frames [dir, todo]
    all_files,        \* analyze.all_files
    python_files,     \* analyze.python_files
    cursor,           \* loop index of the register / extract loops
    folders,          \* CodeAnalyzer.folders
    files,            \* CodeAnalyzer.files
    modules,          \* CodeAnalyzer.modules
    functions,        \* CodeAnalyzer.functions
    classes,          \* CodeAnalyzer.classes
    import_details,   \* CodeAnalyzer.import_details
    file_functions,   \* CodeAnalyzer.file_functions
    summary,          \* the dict analyze() returns (get_summary)
    graph,            \* the dict get_graph_data() returns
    call              \* a single call of a helper: [fn, args..., ret]

vars == <<project_root, fs, source, gitignore_files, patterns, pc, stack,
          all_files, python_files, cursor, folders, files, modules, functions,
          classes, import_details, file_functions, summary, graph, call>>

(***************************************************************************)
(* Bounds of the model.                                                    *)
(***************************************************************************)
MaxRules == 2        \* lines of one .gitignore file
MaxDots  == 3        \* leading dots of an import specifier
MaxDefs  == 2        \* function definitions in the file whose calls are resolved

(***************************************************************************)
(* Text helpers.                                                           *)
(***************************************************************************)
None     == <<>>
EmptyStr == <<"">>
NoClass  == ""

Falsy(s) == s = None \/ s = EmptyStr

Last(s) == s[Len(s)]
DropLast(s, n) == SubSeq(s, 1, Len(s) - n)      \* s[:-n] for n >= 1

\* '.'.join(parts)
JoinDots(parts) == IF parts = <<>> THEN EmptyStr ELSE parts

\* s.startswith('.')
StartsWithDot(s) == Len(s) >= 2 /\ s[1] = ""

\* s.endswith('.' + word)
EndsWithDot(s, word) == Len(s) >= 2 /\ Last(s) = word

RECURSIVE Flatten(_)
\* path_str.replace('/', '.'): the components of all segments, in order
Flatten(path) ==
    IF path = <<>> THEN <<>> ELSE Head(path) \o Flatten(Tail(path))

(***************************************************************************)
(* fnmatch.fnmatch(name, pat) for a name and a pattern without '/'.  A     *)
(* pattern component "*" stands for the glob '*' between two dots: it      *)
(* matches any text, that is one or more components of the name.           *)
(***************************************************************************)
RECURSIVE FnMatch(_, _)
FnMatch(name, pat) ==
    IF pat = <<>> THEN name = <<>>
    ELSE IF name = <<>> THEN FALSE
    ELSE IF Head(pat) = "*"
         THEN \E k \in 1..Len(name) :
                  FnMatch(SubSeq(name, k + 1, Len(name)), Tail(pat))
         ELSE Head(name) = Head(pat) /\ FnMatch(Tail(name), Tail(pat))

\* fnmatch of one path segment against a whole pattern, which may hold '/':
\* a segment holds no '/', so only a one-segment pattern can match it.
FnMatchPart(part, segs) == Len(segs) = 1 /\ FnMatch(part, segs[1])

\* fnmatch of a window of path segments joined by '/' against a pattern with
\* as many segments: every '/' of the pattern meets a '/' of the window.
FnMatchWindow(parts, i, segs) ==
    \A j \in 1..Len(segs) : FnMatch(parts[i + j], segs[j])

(***************************************************************************)
(* GitIgnoreParser                                                         *)
(***************************************************************************)
\* One line of a .gitignore file, already stripped, not blank, no comment:
\* [neg: leading '!', lead: leading '/', segs: the pattern's segments,
\*  dir: trailing '/'].  ParseLine is lines 86-105 for a file in directory dir.
ParseLine(line, dir) ==
    LET is_negation  == line.neg
        is_directory == line.dir
        isabs        == line.lead
        rewritten    == IF ~isabs /\ dir # <<>>
                        THEN [lead |-> FALSE, segs |-> dir \o line.segs]
                        ELSE [lead |-> line.lead, segs |-> line.segs]
    IN  [pattern |-> rewritten, is_negation |-> is_negation,
         is_directory |-> is_directory]

RECURSIVE LoadLines(_, _)
LoadLines(lines, dir) ==
    IF lines = <<>> THEN <<>>
    ELSE <<ParseLine(Head(lines), dir)>> \o LoadLines(Tail(lines), dir)

RECURSIVE _load_gitignore_files(_)
_load_gitignore_files(gfiles) ==
    IF gfiles = <<>> THEN <<>>
    ELSE LoadLines(Head(gfiles).lines, Head(gfiles).dir)
            \o _load_gitignore_files(Tail(gfiles))

\* path_parts: the path relative to the project root, cut at '/'
_matches_pattern(path_parts, pattern, is_directory) ==
    LET segs == pattern.segs      \* pattern.lstrip('/')
        n    == Len(path_parts)
    IN  IF is_directory
        THEN \E i \in 1..n : FnMatchPart(path_parts[i], segs)
        ELSE IF Len(segs) > 1
        THEN \E i \in 0..(n - Len(segs)) : FnMatchWindow(path_parts, i, segs)
        ELSE \/ FnMatchPart(path_parts[n], segs)
             \/ \E i \in 1..(n - 1) : FnMatchPart(path_parts[i], segs)

RECURSIVE ScanRules(_, _, _, _, _)
\* the loop of should_ignore over self.patterns, from rule i on
ScanRules(path, is_dir, pats, i, flags) ==
    IF i > Len(pats) THEN flags
    ELSE LET r == pats[i] IN
         IF r.is_directory /\ ~is_dir
         THEN ScanRules(path, is_dir, pats, i + 1, flags)
         ELSE IF _matches_pattern(path, r.pattern, r.is_directory)
         THEN ScanRules(path, is_dir, pats, i + 1,
                  IF r.is_negation
                  THEN [flags EXCEPT !.matches_negation = TRUE]
                  ELSE [flags EXCEPT !.matches_ignore = TRUE])
         ELSE ScanRules(path, is_dir, pats, i + 1, flags)

RECURSIVE LastWordRules(_, _, _, _, _)
\* a first/last-match-wins matcher: the later rule overrides the earlier
LastWordRules(path, is_dir, pats, i, flags) ==
    IF i > Len(pats) THEN flags
    ELSE LET r == pats[i] IN
         IF ~(r.is_directory /\ ~is_dir)
            /\ _matches_pattern(path, r.pattern, r.is_directory)
         THEN LastWordRules(path, is_dir, pats, i + 1,
                  [matches_negation |-> r.is_negation,
                   matches_ignore |-> ~r.is_negation])
         ELSE LastWordRules(path, is_dir, pats, i + 1, flags)

should_ignore_LastWord(path, is_dir, pats) ==
    LET flags == LastWordRules(path, is_dir, pats, 1,
                     [matches_ignore |-> FALSE, matches_negation |-> FALSE])
    IN  IF flags.matches_negation THEN FALSE ELSE flags.matches_ignore

should_ignore(path, is_dir, pats) ==
    LET flags == ScanRules(path, is_dir, pats, 1,
                     [matches_ignore |-> FALSE, matches_negation |-> FALSE])
    IN  IF flags.matches_negation THEN FALSE ELSE flags.matches_ignore

(***************************************************************************)
(* CodeAnalyzer: names                                                     *)
(***************************************************************************)
_get_full_function_name(name, class_name, file_path) ==
    IF class_name # NoClass THEN <<file_path, class_name, name>>
    ELSE <<file_path, NoClass, name>>

_get_module_name(file_path) ==
    LET dotted == Flatten(file_path)
        no_py  == IF EndsWithDot(dotted, "py") THEN DropLast(dotted, 1) ELSE dotted
    IN  IF EndsWithDot(no_py, "__init__") THEN DropLast(no_py, 1) ELSE no_py

RECURSIVE CountDots(_)
\* the while loop of lines 222-226: [dots, module_part]
CountDots(module_part) ==
    IF StartsWithDot(module_part)
    THEN LET rest == CountDots(Tail(module_part))
         IN  [dots |-> rest.dots + 1, module_part |-> rest.module_part]
    ELSE [dots |-> 0, module_part |-> module_part]

_resolve_relative_import(import_module, current_file) ==
    IF Falsy(import_module) \/ ~StartsWithDot(import_module) THEN import_module
    ELSE LET current_module == _get_module_name(current_file)
             c              == CountDots(import_module)
             dots           == c.dots
             module_part    == c.module_part
             parts          == current_module
         IN  IF module_part = EmptyStr
             THEN IF dots <= Len(parts)
                  THEN IF dots > 1 THEN JoinDots(DropLast(parts, dots - 1))
                       ELSE JoinDots(DropLast(parts, 1))
                  ELSE None
             ELSE IF dots = 1
             THEN LET parent == IF Len(parts) > 1 THEN JoinDots(DropLast(parts, 1))
                                ELSE EmptyStr
                  IN  IF parent # EmptyStr THEN parent \o module_part
                      ELSE module_part
             ELSE IF dots - 1 <= Len(parts)
                  THEN JoinDots(DropLast(parts, dots - 1)) \o module_part
                  ELSE None


(***************************************************************************)
(* The file system below the project root.                                 *)
(***************************************************************************)
IsPrefix(p, q) == Len(p) <= Len(q) /\ SubSeq(q, 1, Len(p)) = p

\* the directories: the proper non-empty prefixes of the file paths
Dirs(fset) == UNION {{SubSeq(f, 1, n) : n \in 1..(Len(f) - 1)} : f \in fset}

IsFile(path) == path \in fs     \* Path.is_file()
IsDir(path)  == path \in Dirs(fs)     \* Path.is_dir()

\* dir_path.iterdir(): the entries directly inside a directory
iterdir(dir) ==
    {p \in fs \cup Dirs(fs) : Len(p) = Len(dir) + 1 /\ IsPrefix(dir, p)}

\* Path(name).suffix == '.py': the last dot is neither first nor last
SuffixIsPy(name) ==
    /\ Len(name) >= 2
    /\ Last(name) = "py"
    /\ ~(Len(name) = 2 /\ name[1] = "")

(***************************************************************************)
(* CodeAnalyzer._should_skip_path; path.parts are the parts of the root's  *)
(* own location followed by the parts of the relative path.                *)
(***************************************************************************)
CommonSkipped == {<<"__pycache__">>, <<"node_modules">>,
                  <<"", "pytest_cache">>, <<"", "mypy_cache">>}

PartIsSkipped(part) ==
    \/ (StartsWithDot(part) /\ part # <<"", "gitignore">>)
    \/ part \in CommonSkipped

_should_skip_path(rel) ==
    IF should_ignore(rel, IsDir(rel), patterns) THEN TRUE
    ELSE LET parts == project_root \o rel
         IN  \E i \in 1..Len(parts) : PartIsSkipped(parts[i])

(***************************************************************************)
(* CodeAnalyzer: the folder / file / module hierarchy                      *)
(***************************************************************************)
Put(dict, key, value) ==
    [k \in DOMAIN dict \cup {key} |-> IF k = key THEN value ELSE dict[k]]

EmptyDict == [k \in {} |-> TRUE]

\* the top-level directory of a file instead of its parent
_get_folder_path_TopLevel(file_path) ==
    IF Len(file_path) > 1 THEN SubSeq(file_path, 1, 1) ELSE <<>>

\* Path(file_path).parent, '' for the root
_get_folder_path(file_path) == DropLast(file_path, 1)

NewFolder(path) == [path |-> path, files |-> <<>>, subfolders |-> {}]

RECURSIVE TrackParents_ExistingOnly(_, _, _)
\* a loop that links a folder to the parents already known and makes none
TrackParents_ExistingOnly(fold, parts, i) ==
    IF i > Len(parts) THEN fold
    ELSE LET parent_folder == SubSeq(parts, 1, i)
             linked == IF i < Len(parts) /\ parent_folder \in DOMAIN fold
                       THEN [fold EXCEPT ![parent_folder].subfolders =
                                 @ \cup {SubSeq(parts, 1, i + 1)}]
                       ELSE fold
         IN  TrackParents_ExistingOnly(linked, parts, i + 1)

RECURSIVE TrackParents(_, _, _)
\* the loop of lines 309-321 over i = 0 .. len(parts), from i on
TrackParents(fold, parts, i) ==
    IF i > Len(parts) THEN fold
    ELSE LET parent_folder == SubSeq(parts, 1, i)
             present == IF parent_folder \in DOMAIN fold THEN fold
                        ELSE Put(fold, parent_folder, NewFolder(parent_folder))
             linked  == IF i < Len(parts)
                        THEN [present EXCEPT ![parent_folder].subfolders =
                                  @ \cup {SubSeq(parts, 1, i + 1)}]
                        ELSE present
         IN  TrackParents(linked, parts, i + 1)

\* st: the analyzer's maps; returns them after registering relative_path
_register_file_in_hierarchy(st, relative_path) ==
    LET folder_path == _get_folder_path(relative_path)
        is_python   == SuffixIsPy(Last(relative_path))
        module_name == IF is_python THEN _get_module_name(relative_path) ELSE None
        fold1 == IF folder_path \in DOMAIN st.folders THEN st.folders
                 ELSE Put(st.folders, folder_path, NewFolder(folder_path))
        new_file == relative_path \notin DOMAIN st.files
        files1 == IF new_file
                  THEN Put(st.files, relative_path,
                           [path |-> relative_path, name |-> Last(relative_path),
                            module |-> module_name, folder |-> folder_path,
                            functions |-> <<>>, is_python |-> is_python])
                  ELSE st.files
        fold2 == IF new_file
                 THEN [fold1 EXCEPT ![folder_path].files = Append(@, relative_path)]
                 ELSE fold1
        mods1 == IF ~Falsy(module_name) /\ module_name \notin DOMAIN st.modules
                 THEN Put(st.modules, module_name,
                          [name |-> module_name, file |-> relative_path,
                           folder |-> folder_path, functions |-> <<>>,
                           classes |-> <<>>])
                 ELSE st.modules
        fold3 == IF folder_path # <<>> THEN TrackParents(fold2, folder_path, 0)
                 ELSE fold2
    IN  [st EXCEPT !.folders = fold3, !.files = files1, !.modules = mods1]


(***************************************************************************)
(* CodeAnalyzer: structural extraction.  A parsed file is a sequence of    *)
(* nodes in source order:                                                  *)
(*   [kind |-> "import", names]            import a, b                     *)
(*   [kind |-> "from", module, level, names]   from ...module import names *)
(* (names: the imported names, each a text like a module name)             *)
(*   [kind |-> "class", name, body]        class name: body                *)
(*   [kind |-> "def", name, parameters, calls]  def name(parameters): ...  *)
(* calls is the set of call sites of the body, each [form, name]:          *)
(*   "name"  f(...)        "self"  self.f(...)                             *)
(*   "obj"   x.f(...)      "chain" g().f(...)                              *)
(***************************************************************************)
SyntaxError == <<[kind |-> "SyntaxError"]>>

\* a call recorder that drops the class of a self call
visit_Call_Unqualified(site, current_class, current_file) ==
    <<current_file, NoClass, site.name>>

\* CallVisitor.visit_Call: the callee key recorded for one call site
visit_Call(site, current_class, current_file) ==
    IF site.form = "name" THEN <<current_file, NoClass, site.name>>
    ELSE IF site.form = "self" /\ current_class # NoClass
    THEN <<current_file, current_class, site.name>>
    ELSE <<current_file, NoClass, site.name>>

_extract_function_calls(node, current_class, current_file) ==
    {visit_Call(site, current_class, current_file) : site \in node.calls}

AppendTo(dict, key, value) ==
    IF key \in DOMAIN dict THEN [dict EXCEPT ![key] = Append(@, value)]
    ELSE Put(dict, key, <<value>>)

InSeq(x, seq) == \E i \in 1..Len(seq) : seq[i] = x

RECURSIVE visit_Import(_, _, _)
visit_Import(st, names, relative_path) ==
    IF names = <<>> THEN st
    ELSE visit_Import(
             [st EXCEPT !.import_details =
                  AppendTo(@, relative_path,
                      [from |-> Head(names), resolved_module |-> None,
                       imports |-> <<Head(names)>>, is_relative |-> FALSE])],
             Tail(names), relative_path)

visit_ImportFrom(st, node, relative_path) ==
    IF ~Falsy(node.module)
    THEN LET is_relative == node.level > 0
             resolved_module ==
                 IF is_relative
                 THEN _resolve_relative_import(node.module, relative_path)
                 ELSE node.module
         IN  [st EXCEPT !.import_details =
                  AppendTo(@, relative_path,
                      [from |-> node.module, resolved_module |-> resolved_module,
                       imports |-> node.names, is_relative |-> is_relative])]
    ELSE st

visit_FunctionDef(st, node, current_class, relative_path) ==
    LET full_name == _get_full_function_name(node.name, current_class, relative_path)
        func_info == [name |-> node.name, file_path |-> relative_path,
                      parameters |-> node.parameters,
                      calls |-> _extract_function_calls(node, current_class,
                                                        relative_path),
                      called_by |-> {},
                      is_method |-> current_class # NoClass,
                      class_name |-> current_class]
        module_name == _get_module_name(relative_path)
        class_full_name == <<relative_path, current_class>>
        files1 == IF relative_path \in DOMAIN st.files
                  THEN [st.files EXCEPT ![relative_path].functions =
                            Append(@, full_name)]
                  ELSE st.files
        mods1 == IF module_name \in DOMAIN st.modules
                 THEN [st.modules EXCEPT ![module_name].functions =
                           Append(@, full_name)]
                 ELSE st.modules
        mods2 == IF current_class # NoClass /\ module_name \in DOMAIN mods1
                    /\ ~InSeq(class_full_name, mods1[module_name].classes)
                 THEN [mods1 EXCEPT ![module_name].classes =
                           Append(@, class_full_name)]
                 ELSE mods1
        classes1 == IF current_class # NoClass
                    THEN [st.classes EXCEPT ![class_full_name].methods =
                              Append(@, full_name)]
                    ELSE st.classes
    IN  [st EXCEPT !.functions = Put(@, full_name, func_info),
                   !.file_functions = AppendTo(@, relative_path, full_name),
                   !.files = files1, !.modules = mods2, !.classes = classes1]

RECURSIVE Visit(_, _, _, _)
\* Visitor.visit over a sequence of sibling nodes, current_class as on entry
Visit(st, nodes, current_class, relative_path) ==
    IF nodes = <<>> THEN st
    ELSE LET node == Head(nodes)
             st1 ==
               IF node.kind = "import"
               THEN visit_Import(st, node.names, relative_path)
               ELSE IF node.kind = "from"
               THEN visit_ImportFrom(st, node, relative_path)
               ELSE IF node.kind = "class"
               THEN Visit([st EXCEPT !.classes =
                               Put(@, <<relative_path, node.name>>,
                                   [name |-> node.name, file_path |-> relative_path,
                                    methods |-> <<>>])],
                          node.body, node.name, relative_path)
               ELSE visit_FunctionDef(st, node, current_class, relative_path)
         IN  Visit(st1, Tail(nodes), current_class, relative_path)

\* ast.parse(content) raises SyntaxError when any statement of the file is
\* malformed, whatever precedes it
HasSyntaxError(content) ==
    \E i \in 1..Len(content) : content[i].kind = "SyntaxError"

RECURSIVE BeforeError(_)
\* the statements of a file up to its first malformed one
BeforeError(content) ==
    IF content = <<>> \/ Head(content).kind = "SyntaxError" THEN <<>>
    ELSE <<Head(content)>> \o BeforeError(Tail(content))

\* an analyzer that extracts statement by statement until the error
_analyze_file_Partial(st, relative_path) ==
    Visit(_register_file_in_hierarchy(st, relative_path),
          BeforeError(source[relative_path]), NoClass, relative_path)

\* st after _analyze_file(file_path); a SyntaxError leaves st as it is
_analyze_file(st, relative_path) ==
    IF HasSyntaxError(source[relative_path]) THEN st
    ELSE Visit(_register_file_in_hierarchy(st, relative_path),
               source[relative_path], NoClass, relative_path)

(***************************************************************************)
(* CodeAnalyzer._build_call_graph                                          *)
(***************************************************************************)
\* key.split('::')[-1].split('.')[-1]
BareName(key) == key[3]

\* a resolver that runs the same-file name match after an exact match too
CallTargets_Both(funcs, func_name, called_func) ==
    {other \in DOMAIN funcs :
        \/ other = called_func
        \/ /\ funcs[other].file_path = funcs[func_name].file_path
           /\ funcs[other].name = BareName(called_func)}

\* a resolver whose name match stays within the caller's class
CallTargets_SameClass(funcs, func_name, called_func) ==
    IF called_func \in DOMAIN funcs THEN {called_func}
    ELSE {other \in DOMAIN funcs :
              /\ funcs[other].file_path = funcs[func_name].file_path
              /\ funcs[other].class_name = funcs[func_name].class_name
              /\ funcs[other].name = BareName(called_func)}

\* a resolver whose name match looks at the functions of every file
CallTargets_AnyFile(funcs, func_name, called_func) ==
    IF called_func \in DOMAIN funcs THEN {called_func}
    ELSE {other \in DOMAIN funcs : funcs[other].name = BareName(called_func)}

\* the functions whose called_by gains func_name for its call called_func
CallTargets(funcs, func_name, called_func) ==
    IF called_func \in DOMAIN funcs THEN {called_func}
    ELSE {other \in DOMAIN funcs :
              /\ funcs[other].file_path = funcs[func_name].file_path
              /\ funcs[other].name = BareName(called_func)}

_build_call_graph(funcs) ==
    [target \in DOMAIN funcs |->
        [funcs[target] EXCEPT !.called_by = @ \cup
            {func_name \in DOMAIN funcs :
                \E called_func \in funcs[func_name].calls :
                    target \in CallTargets(funcs, func_name, called_func)}]]


(***************************************************************************)
(* CodeAnalyzer.get_summary                                                *)
(***************************************************************************)
RECURSIVE SumParameters(_, _)
\* sum(len(f.parameters) for f in self.functions.values())
SumParameters(funcs, keys) ==
    IF keys = {} THEN 0
    ELSE LET k == CHOOSE x \in keys : TRUE
         IN  Len(funcs[k].parameters) + SumParameters(funcs, keys \ {k})

RECURSIVE Gcd(_, _)
Gcd(a, b) == IF b = 0 THEN a ELSE Gcd(b, a % b)

\* the quotient a / b (b > 0) as a fraction in lowest terms
Quotient(a, b) ==
    LET g == Gcd(a, b) IN IF g = 0 THEN [num |-> 0, den |-> 1]
                          ELSE [num |-> a \div g, den |-> b \div g]

ZeroDivisionError == [num |-> 0, den |-> 0]

\* total_params / len(self.functions) with no guard
average_Unguarded(total_params, n) ==
    IF n = 0 THEN ZeroDivisionError ELSE Quotient(total_params, n)

\* total_params / len(self.functions) if self.functions else 0
average_parameters_per_function(total_params, n) ==
    IF n # 0 THEN Quotient(total_params, n) ELSE Quotient(0, 1)

get_summary ==
    LET total_params == SumParameters(functions, DOMAIN functions)
    IN  [total_folders |-> Cardinality({f \in DOMAIN folders : f # <<>>}),
         total_files |-> Cardinality(DOMAIN file_functions),
         total_modules |-> Cardinality(DOMAIN modules),
         total_functions |-> Cardinality(DOMAIN functions),
         total_classes |-> Cardinality(DOMAIN classes),
         total_parameters |-> total_params,
         functions_that_call_others |->
             Cardinality({k \in DOMAIN functions : functions[k].calls # {}}),
         functions_that_are_called |->
             Cardinality({k \in DOMAIN functions : functions[k].called_by # {}}),
         average_parameters_per_function |->
             average_parameters_per_function(total_params,
                                             Cardinality(DOMAIN functions))]

NoSummary ==
    [total_folders |-> 0, total_files |-> 0, total_modules |-> 0,
     total_functions |-> 0, total_classes |-> 0, total_parameters |-> 0,
     functions_that_call_others |-> 0, functions_that_are_called |-> 0,
     average_parameters_per_function |-> Quotient(0, 1)]

(***************************************************************************)
(* CodeAnalyzer.get_graph_data.  Nodes are kept per node type and edges    *)
(* per relationship; an identifier "folder::p", "file::p", "module::m" is  *)
(* the key p or m in the set of its type, a function's identifier is its   *)
(* key.                                                                    *)
(***************************************************************************)
FolderNodes ==
    {[path |-> p, file_count |-> Len(folders[p].files),
      subfolder_count |-> Cardinality(folders[p].subfolders)] :
        p \in {q \in DOMAIN folders : q # <<>>}}

FileNodes ==
    {[path |-> p, module |-> files[p].module, folder |-> files[p].folder,
      function_count |-> Len(files[p].functions),
      is_python |-> files[p].is_python] : p \in DOMAIN files}

ModuleNodes ==
    {[name |-> m, file |-> modules[m].file, folder |-> modules[m].folder,
      function_count |-> Len(modules[m].functions),
      class_count |-> Len(modules[m].classes)] : m \in DOMAIN modules}

FunctionNodes ==
    {[id |-> k, label |-> functions[k].name,
      type |-> IF functions[k].is_method THEN "method" ELSE "function",
      file |-> functions[k].file_path,
      module |-> _get_module_name(functions[k].file_path),
      folder |-> _get_folder_path(functions[k].file_path),
      parameter_count |-> Len(functions[k].parameters),
      call_count |-> Cardinality(functions[k].calls),
      called_by_count |-> Cardinality(functions[k].called_by)] :
        k \in DOMAIN functions}

FolderContainsFile ==
    {[source |-> files[p].folder, target |-> p] :
        p \in {q \in DOMAIN files : files[q].folder # <<>>}}

FileDefinesModule ==
    {[source |-> p, target |-> files[p].module] : p \in DOMAIN files}

ModuleContainsFunction ==
    UNION {{[source |-> m, target |-> modules[m].functions[i]] :
               i \in 1..Len(modules[m].functions)} : m \in DOMAIN modules}

FolderContainsFolder ==
    {[source |-> DropLast(p, 1), target |-> p] :
        p \in {q \in DOMAIN folders : q # <<>> /\ DropLast(q, 1) \in DOMAIN folders}}

\* lines 777-782: source is the caller, target the function called
CalledByEdge(caller, func_name) ==
    [source |-> caller, target |-> func_name, type |-> "called_by"]

CallEdges ==
    UNION {{[source |-> k, target |-> c, type |-> "calls"] :
               c \in {d \in functions[k].calls : d \in DOMAIN functions}} :
           k \in DOMAIN functions}

CalledByEdges ==
    UNION {{CalledByEdge(caller, k) : caller \in functions[k].called_by} :
           k \in DOMAIN functions}

RECURSIVE InsertionOrder(_, _)
\* the keys of self.modules in insertion order: the modules of the walked
\* files in the order of the register loop, each at its first occurrence
InsertionOrder(paths, seen) ==
    IF paths = <<>> THEN <<>>
    ELSE LET module_name == IF SuffixIsPy(Last(Head(paths)))
                            THEN _get_module_name(Head(paths)) ELSE None
         IN  IF ~Falsy(module_name) /\ module_name \notin seen
                /\ module_name \in DOMAIN modules
             THEN <<module_name>>
                    \o InsertionOrder(Tail(paths), seen \cup {module_name})
             ELSE InsertionOrder(Tail(paths), seen)

\* known_module.endswith(f".{imported_module}") or known_module == imported_module
PartialMatch(known_module, imported_module) ==
    \/ known_module = imported_module
    \/ /\ Len(known_module) > Len(imported_module)
       /\ SubSeq(known_module, Len(known_module) - Len(imported_module) + 1,
                 Len(known_module)) = imported_module

\* lines 789-805 with self.modules.keys() iterating in the given order: the
\* known module an import record points at, <<>> if none, else <<known_module>>
ImportTargetIn(import_info, order) ==
    LET imported_module == IF ~Falsy(import_info.resolved_module)
                           THEN import_info.resolved_module
                           ELSE import_info.from
        hits  == {i \in 1..Len(order) : PartialMatch(order[i], imported_module)}
    IN  IF imported_module \in DOMAIN modules THEN <<imported_module>>
        ELSE IF hits = {} THEN <<>>
        ELSE <<order[CHOOSE i \in hits : \A j \in hits : i <= j]>>

ImportTarget(import_info) ==
    ImportTargetIn(import_info, InsertionOrder(all_files, {}))

\* the import records that found a target: [file, info, target]
ResolvedImports ==
    UNION {{[file |-> f, info |-> import_details[f][i],
             target |-> ImportTarget(import_details[f][i])[1]] :
               i \in {j \in 1..Len(import_details[f]) :
                          ImportTarget(import_details[f][j]) # <<>>}} :
           f \in {g \in DOMAIN import_details : g \in DOMAIN files}}

\* lines 809-817
FileImportsFromFile ==
    {[source |-> r.file, target |-> modules[r.target].file,
      imports |-> r.info.imports,
      is_relative |-> r.info.is_relative] : r \in ResolvedImports}

\* lines 818-826
ModuleImportsFromModule ==
    {[source |-> _get_module_name(r.file), target |-> r.target,
      imports |-> r.info.imports,
      is_relative |-> r.info.is_relative] : r \in ResolvedImports}

get_graph_data ==
    [folder_nodes |-> FolderNodes, file_nodes |-> FileNodes,
     module_nodes |-> ModuleNodes, function_nodes |-> FunctionNodes,
     folder_contains_file |-> FolderContainsFile,
     file_defines_module |-> FileDefinesModule,
     module_contains_function |-> ModuleContainsFunction,
     folder_contains_folder |-> FolderContainsFolder,
     function_call |-> CallEdges,
     dependency |-> CalledByEdges,
     file_imports_from_file |-> FileImportsFromFile,
     module_imports_from_module |-> ModuleImportsFromModule]

NoGraph ==
    [folder_nodes |-> {}, file_nodes |-> {}, module_nodes |-> {},
     function_nodes |-> {}, folder_contains_file |-> {},
     file_defines_module |-> {}, module_contains_function |-> {},
     folder_contains_folder |-> {}, function_call |-> {}, dependency |-> {},
     file_imports_from_file |-> {}, module_imports_from_module |-> {}]


(***************************************************************************)
(* analyze() and its caller, step by step.                                 *)
(***************************************************************************)
Maps == [folders |-> folders, files |-> files, modules |-> modules,
         functions |-> functions, classes |-> classes,
         import_details |-> import_details, file_functions |-> file_functions]

SetMaps(st) ==
    /\ folders' = st.folders
    /\ files' = st.files
    /\ modules' = st.modules
    /\ functions' = st.functions
    /\ classes' = st.classes
    /\ import_details' = st.import_details
    /\ file_functions' = st.file_functions

RECURSIVE Unwind(_)
\* a frame whose iterdir() loop is exhausted returns to its caller
Unwind(frames) ==
    IF frames # <<>> /\ Last(frames).todo = {}
    THEN Unwind(DropLast(frames, 1)) ELSE frames

RECURSIVE PythonOnly(_)
\* [f for f in all_files if f.suffix == '.py']
PythonOnly(paths) ==
    IF paths = <<>> THEN <<>>
    ELSE IF SuffixIsPy(Last(Head(paths)))
         THEN <<Head(paths)>> \o PythonOnly(Tail(paths))
         ELSE PythonOnly(Tail(paths))

inputs == <<project_root, fs, source, gitignore_files, patterns>>
walk   == <<stack, all_files, python_files>>
maps   == <<folders, files, modules, functions, classes, import_details,
            file_functions>>

\* a walk that tests files only and descends into every directory
WalkStep_FilesOnly ==
    /\ pc = "walk" /\ stack # <<>>
    /\ \E item \in Last(stack).todo :
         LET rest == [stack EXCEPT ![Len(stack)].todo = @ \ {item}]
         IN  IF IsFile(item)
             THEN /\ all_files' = IF _should_skip_path(item) THEN all_files
                                   ELSE Append(all_files, item)
                  /\ python_files' = IF SuffixIsPy(Last(item))
                                         /\ ~_should_skip_path(item)
                                      THEN Append(python_files, item)
                                      ELSE python_files
                  /\ stack' = Unwind(rest)
             ELSE /\ stack' = Unwind(Append(rest,
                                  [dir |-> item, todo |-> iterdir(item)]))
                  /\ UNCHANGED <<all_files, python_files>>
    /\ UNCHANGED <<inputs, maps, pc, cursor, summary, graph, call>>

\* walk_directory: one item of the innermost directory's iterdir()
WalkStep ==
    /\ pc = "walk" /\ stack # <<>>
    /\ \E item \in Last(stack).todo :
         LET rest == [stack EXCEPT ![Len(stack)].todo = @ \ {item}]
         IN  IF _should_skip_path(item)
             THEN /\ stack' = Unwind(rest)
                  /\ UNCHANGED <<all_files, python_files>>
             ELSE IF IsFile(item)
             THEN /\ all_files' = Append(all_files, item)
                  /\ python_files' = IF SuffixIsPy(Last(item))
                                     THEN Append(python_files, item)
                                     ELSE python_files
                  /\ stack' = Unwind(rest)
             ELSE /\ stack' = Unwind(Append(rest,
                                  [dir |-> item, todo |-> iterdir(item)]))
                  /\ UNCHANGED <<all_files, python_files>>
    /\ UNCHANGED <<inputs, maps, pc, cursor, summary, graph, call>>

AfterRegister == IF python_files = <<>> THEN "build" ELSE "analyze"

\* the walk has returned: lines 589-590, then on to the register loop
WalkDone ==
    /\ pc = "walk" /\ stack = <<>>
    /\ python_files' = PythonOnly(all_files)
    /\ pc' = IF all_files = <<>> THEN "build" ELSE "register"
    /\ cursor' = 1
    /\ UNCHANGED <<inputs, maps, stack, all_files, summary, graph, call>>

\* one turn of the loop of lines 596-598
RegisterStep ==
    /\ pc = "register"
    /\ SetMaps(_register_file_in_hierarchy(Maps, all_files[cursor]))
    /\ IF cursor < Len(all_files)
       THEN cursor' = cursor + 1 /\ pc' = pc
       ELSE cursor' = 1 /\ pc' = AfterRegister
    /\ UNCHANGED <<inputs, walk, summary, graph, call>>

\* an extraction loop that resolves calls after each file
AnalyzeFileStep_Resolving ==
    /\ pc = "analyze"
    /\ LET st == _analyze_file(Maps, python_files[cursor])
       IN  SetMaps([st EXCEPT !.functions = _build_call_graph(st.functions)])
    /\ IF cursor < Len(python_files)
       THEN cursor' = cursor + 1 /\ pc' = pc
       ELSE cursor' = 1 /\ pc' = "build"
    /\ UNCHANGED <<inputs, walk, summary, graph, call>>

\* one turn of the loop of lines 616-617
AnalyzeFileStep ==
    /\ pc = "analyze"
    /\ SetMaps(_analyze_file(Maps, python_files[cursor]))
    /\ IF cursor < Len(python_files)
       THEN cursor' = cursor + 1 /\ pc' = pc
       ELSE cursor' = 1 /\ pc' = "build"
    /\ UNCHANGED <<inputs, walk, summary, graph, call>>

BuildCallGraph ==
    /\ pc = "build"
    /\ functions' = _build_call_graph(functions)
    /\ pc' = "summary"
    /\ UNCHANGED <<inputs, walk, cursor, folders, files, modules, classes,
                   import_details, file_functions, summary, graph, call>>

\* return self.get_summary()
ReturnSummary ==
    /\ pc = "summary"
    /\ summary' = get_summary
    /\ pc' = "returned"
    /\ UNCHANGED <<inputs, walk, cursor, maps, graph, call>>

\* the caller's analyzer.get_graph_data()
GetGraphData ==
    /\ pc = "returned"
    /\ graph' = get_graph_data
    /\ pc' = "done"
    /\ UNCHANGED <<inputs, walk, cursor, maps, summary, call>>

Next ==
    \/ WalkStep
    \/ WalkDone
    \/ RegisterStep
    \/ AnalyzeFileStep
    \/ BuildCallGraph
    \/ ReturnSummary
    \/ GetGraphData

(***************************************************************************)
(* The state after CodeAnalyzer(project_root), about to run analyze().     *)
(***************************************************************************)
GitignoreName == <<"", "gitignore">>

NoCall == [fn |-> "none"]

Constructed(root, fset, src, gfiles) ==
    /\ project_root = root
    /\ fs = fset \cup {g.dir \o <<GitignoreName>> :
                          g \in {gfiles[i] : i \in 1..Len(gfiles)}}
    /\ source = src
    /\ gitignore_files = gfiles
    /\ patterns = _load_gitignore_files(gfiles)
    /\ all_files = <<>>
    /\ python_files = <<>>
    /\ cursor = 1
    /\ folders = EmptyDict
    /\ files = EmptyDict
    /\ modules = EmptyDict
    /\ functions = EmptyDict
    /\ classes = EmptyDict
    /\ import_details = EmptyDict
    /\ file_functions = EmptyDict
    /\ summary = NoSummary
    /\ graph = NoGraph

Analyzing ==
    /\ pc = "walk"
    /\ stack = Unwind(<<[dir |-> <<>>, todo |-> iterdir(<<>>)]>>)
    /\ call = NoCall

SeqsUpTo(S, n) == UNION {[1..k -> S] : k \in 0..n}

Seg(a) == <<a>>
Py(a)  == <<a, "py">>

PlainRoot == <<Seg("/"), Seg("home"), Seg("proj")>>

PythonFiles(fset) == {f \in fset : SuffixIsPy(Last(f))}

(***************************************************************************)
(* Spec: projects of up to three source files and a text file, without     *)
(* ignore files; each source file holds one of a few short programs.       *)
(***************************************************************************)
Universe ==
    {<<Py("m")>>, <<Seg("pkg"), Py("mod")>>,
     <<Seg("pkg"), Seg("sub"), Py("mod")>>, <<<<"notes", "md">>>>}

DefF == [kind |-> "def", name |-> "f", parameters |-> <<"a">>, calls |-> {}]
DefG == [kind |-> "def", name |-> "g", parameters |-> <<"a", "b", "c">>,
         calls |-> {[form |-> "name", name |-> "f"]}]

\* from . import sibling       (module None, level 1)
FromDot == [kind |-> "from", module |-> None, level |-> 1,
            names |-> <<Seg("sibling")>>]
\* from .. import other
FromDotDot == [kind |-> "from", module |-> None, level |-> 2,
               names |-> <<Seg("other")>>]
\* from .sibling import x      (module 'sibling', level 1)
FromDotSibling == [kind |-> "from", module |-> <<"sibling">>, level |-> 1,
                   names |-> <<Seg("x")>>]
\* from pkg.mod import f
FromPkgMod == [kind |-> "from", module |-> <<"pkg", "mod">>, level |-> 0,
               names |-> <<Seg("f")>>]
\* import os
ImportOs == [kind |-> "import", names |-> <<<<"os">>>>]

\* a file whose first statements are well formed and whose last is not
BrokenAfterDef == <<ImportOs, DefF>> \o SyntaxError

Programs ==
    {<<>>, SyntaxError, <<FromDot, DefF>>, <<FromDotDot, DefG>>,
     <<FromDotSibling, ImportOs>>, <<FromPkgMod, DefF, DefG>>, BrokenAfterDef}

Init ==
    /\ \E fset \in SUBSET Universe :
         \E src \in [PythonFiles(fset) -> Programs] :
             Constructed(PlainRoot, fset, src, <<>>)
    /\ Analyzing

Spec == Init /\ [][Next]_vars


(***************************************************************************)
(* SpecIgnore: GitIgnoreParser.should_ignore called once, on a path and    *)
(* with the rules of a root .gitignore of up to MaxRules lines.            *)
(***************************************************************************)
IgnoreLines ==
    [neg : BOOLEAN, lead : {FALSE}, dir : BOOLEAN,
     segs : {<<Seg("build")>>, <<<<"*", "py">>>>, <<Seg("build"), Py("keep")>>}]

IgnorePaths ==
    {<<Seg("build")>>, <<Seg("build"), Py("keep")>>, <<Seg("build"), Py("out")>>,
     <<Py("keep")>>, <<Seg("src"), Seg("build")>>, <<Seg("src"), Py("main")>>}

InitIgnore ==
    /\ \E lines \in SeqsUpTo(IgnoreLines, MaxRules) :
         Constructed(PlainRoot, {}, EmptyDict, <<[dir |-> <<>>, lines |-> lines]>>)
    /\ pc = "call"
    /\ stack = <<>>
    /\ \E path \in IgnorePaths, d \in BOOLEAN :
         call = [fn |-> "should_ignore", path |-> path, is_dir |-> d,
                 done |-> FALSE, ret |-> FALSE]

CallShouldIgnore ==
    /\ pc = "call" /\ call.fn = "should_ignore" /\ ~call.done
    /\ call' = [call EXCEPT !.done = TRUE,
                            !.ret = should_ignore(call.path, call.is_dir, patterns)]
    /\ UNCHANGED <<inputs, walk, maps, pc, cursor, summary, graph>>

NextIgnore == CallShouldIgnore

SpecIgnore == InitIgnore /\ [][NextIgnore]_vars

\* a rule matches a path: it applies to the kind of entry (a directory-only
\* rule applies to directories alone) and its pattern matches
RuleMatches(r, path, d) ==
    /\ ~(r.is_directory /\ ~d)
    /\ _matches_pattern(path, r.pattern, r.is_directory)

SomeRuleMatches(negation) ==
    \E i \in 1..Len(patterns) :
        /\ patterns[i].is_negation = negation
        /\ RuleMatches(patterns[i], call.path, call.is_dir)

\* C1: should_ignore(path) is false whenever a negation rule matches the path,
\* whatever else matches and in whatever order the rules were loaded; with no
\* negation rule matching it is true exactly when a non-negation rule matches.
C1_NegationWins ==
    (call.fn = "should_ignore" /\ call.done) =>
        call.ret = (IF SomeRuleMatches(TRUE) THEN FALSE ELSE SomeRuleMatches(FALSE))

\* a negation rule that matches, loaded before an ignore rule that matches
C1_Witness ==
    /\ call.fn = "should_ignore" /\ call.done /\ call.ret = FALSE
    /\ \E i, j \in 1..Len(patterns) :
         /\ i < j
         /\ patterns[i].is_negation /\ ~patterns[j].is_negation
         /\ RuleMatches(patterns[i], call.path, call.is_dir)
         /\ RuleMatches(patterns[j], call.path, call.is_dir)

(***************************************************************************)
(* SpecResolve: CodeAnalyzer._resolve_relative_import called once.         *)
(***************************************************************************)
Dots(n) == [i \in 1..n |-> ""]

\* n leading dots followed by the text r
Specifier(n, r) == Dots(n) \o r

Remainders == {EmptyStr, <<"other">>, <<"sub", "other">>}

ImportingFiles ==
    {<<Py("m")>>, <<Seg("pkg"), Py("mod")>>, <<Seg("pkg"), Py("__init__")>>,
     <<Seg("pkg"), Seg("sub"), Py("mod")>>,
     <<Seg("a"), Seg("b"), Seg("c"), Py("mod")>>}

InitResolve ==
    /\ Constructed(PlainRoot, {}, EmptyDict, <<>>)
    /\ pc = "call"
    /\ stack = <<>>
    /\ \E m \in {None} \cup {Specifier(n, r) : n \in 0..MaxDots, r \in Remainders},
          f \in ImportingFiles :
         call = [fn |-> "_resolve_relative_import", import_module |-> m,
                 current_file |-> f, done |-> FALSE, ret |-> None]

CallResolveRelativeImport ==
    /\ pc = "call" /\ call.fn = "_resolve_relative_import" /\ ~call.done
    /\ call' = [call EXCEPT !.done = TRUE,
                   !.ret = _resolve_relative_import(call.import_module,
                                                    call.current_file)]
    /\ UNCHANGED <<inputs, walk, maps, pc, cursor, summary, graph>>

NextResolve == CallResolveRelativeImport

SpecResolve == InitResolve /\ [][NextResolve]_vars

Resolved == call.fn = "_resolve_relative_import" /\ call.done

\* the dotted components of the importing module's name
ImportingModule == _get_module_name(call.current_file)

\* C7: n >= 1 leading dots and a non-empty remainder r, imported from a module
\* of k > n components, resolve to the module's first k - n components joined
\* with r; a specifier without a leading dot is returned unchanged.
C7_DropsOnePerDot ==
    Resolved =>
        /\ \A n \in 1..MaxDots, r \in Remainders \ {EmptyStr} :
             (call.import_module = Specifier(n, r) /\ Len(ImportingModule) > n)
                 => call.ret = DropLast(ImportingModule, n) \o r
        /\ \A r \in Remainders :
             call.import_module = Specifier(0, r) => call.ret = call.import_module

\* C8: a relative specifier with more leading dots than there are levels from
\* the importing module up to the project root resolves to None.
C8_AboveRootIsNone ==
    Resolved =>
        \A n \in 1..MaxDots, r \in Remainders :
            (call.import_module = Specifier(n, r) /\ n > Len(ImportingModule))
                => call.ret = None


(***************************************************************************)
(* SpecWalk: a project with directories named build, analyzed under a root *)
(* .gitignore of up to MaxRules lines, from several root locations.        *)
(***************************************************************************)
WalkFiles ==
    {<<Py("main")>>, <<Seg("build"), Py("keep")>>, <<Seg("build"), Py("out")>>,
     <<Seg("src"), Seg("build"), Py("gen")>>}

BuildDir   == [neg |-> FALSE, lead |-> FALSE, dir |-> TRUE, segs |-> <<Seg("build")>>]
KeepNegated == [neg |-> TRUE, lead |-> FALSE, dir |-> FALSE,
                segs |-> <<Seg("build"), Py("keep")>>]
OutPlain   == [neg |-> FALSE, lead |-> FALSE, dir |-> FALSE, segs |-> <<Py("out")>>]
BuildDirNegated == [neg |-> TRUE, lead |-> FALSE, dir |-> TRUE,
                    segs |-> <<Seg("build")>>]

WalkLines == {BuildDir, KeepNegated, OutPlain, BuildDirNegated}

\* the root given as "." and as absolute paths, one below a hidden directory
RootLocations ==
    {<<>>, PlainRoot, <<Seg("/"), Seg("home"), <<"", "cfg">>, Seg("proj")>>}

InitWalk ==
    /\ \E lines \in SeqsUpTo(WalkLines, MaxRules), root \in RootLocations :
         Constructed(root, WalkFiles, [f \in WalkFiles |-> <<>>],
                     <<[dir |-> <<>>, lines |-> lines]>>)
    /\ Analyzing

SpecWalk == InitWalk /\ [][Next]_vars

HasSegment(path, seg) == \E i \in 1..Len(path) : path[i] = seg

Walked(f) == InSeq(f, all_files)

\* C2: with the root rules `build/` and `!build/keep.py`, in either order, the
\* walk excludes every file with a path segment named build, except
\* build/keep.py, which is among the walked files.
C2_KeepReadmitted ==
    (/\ pc # "walk"
     /\ project_root = PlainRoot
     /\ patterns \in {<<ParseLine(BuildDir, <<>>), ParseLine(KeepNegated, <<>>)>>,
                      <<ParseLine(KeepNegated, <<>>), ParseLine(BuildDir, <<>>)>>})
    => \A f \in {g \in fs : HasSegment(g, Seg("build"))} :
           Walked(f) <=> f = <<Seg("build"), Py("keep")>>

\* neither the entry nor a directory on its path below the root is flagged
Unflagged(path) ==
    \A n \in 1..Len(path) : ~_should_skip_path(SubSeq(path, 1, n))

CallSites == {[form |-> "self", name |-> "bar"], [form |-> "name", name |-> "bar"],
              [form |-> "obj", name |-> "bar"]}

DefMenu ==
    [cls : {NoClass, "Baz", "Other"}, name : {"foo", "bar"},
     calls : {{}} \cup {{c} : c \in CallSites}]

DefNode(d) ==
    [kind |-> "def", name |-> d.name, parameters |-> <<"a">>, calls |-> d.calls]

RECURSIVE RunLength(_, _)
\* how many of the leading definitions belong to class cls
RunLength(defs, cls) ==
    IF defs = <<>> \/ Head(defs).cls # cls THEN 0
    ELSE 1 + RunLength(Tail(defs), cls)

RECURSIVE ToAst(_)
ToAst(defs) ==
    IF defs = <<>> THEN <<>>
    ELSE LET d == Head(defs) IN
         IF d.cls = NoClass THEN <<DefNode(d)>> \o ToAst(Tail(defs))
         ELSE LET n == RunLength(defs, d.cls)
              IN  <<[kind |-> "class", name |-> d.cls,
                     body |-> [i \in 1..n |-> DefNode(defs[i])]]>>
                  \o ToAst(SubSeq(defs, n + 1, Len(defs)))

MFile   == <<Py("m")>>
LibFile == <<Py("lib")>>

LibProgram ==
    <<[kind |-> "def", name |-> "bar", parameters |-> <<>>,
       calls |-> {[form |-> "name", name |-> "foo"]}]>>

InitCalls ==
    /\ \E defs \in SeqsUpTo(DefMenu, MaxDefs) :
         Constructed(PlainRoot, {MFile, LibFile},
                     [f \in {MFile, LibFile} |->
                         IF f = MFile THEN ToAst(defs) ELSE LibProgram],
                     <<>>)
    /\ Analyzing

SpecCalls == InitCalls /\ [][Next]_vars


(***************************************************************************)
(* Claims about the call graph (SpecCalls).                                *)
(***************************************************************************)
GraphBuilt == pc = "done"
CallsResolved == pc \in {"summary", "returned", "done"}

\* C3: for every `calls` edge from A to B the graph holds a `called_by` edge in
\* the opposite direction, with source B and target A.
C3_CalledByIsOpposite ==
    GraphBuilt =>
        \A e \in graph.function_call :
            \E d \in graph.dependency :
                d.source = e.target /\ d.target = e.source

\* C4: every `called_by` edge has a `calls` edge between the same two functions.
C4_CalledByHasCalls ==
    GraphBuilt =>
        \A d \in graph.dependency :
            \E e \in graph.function_call :
                \/ (e.source = d.source /\ e.target = d.target)
                \/ (e.source = d.target /\ e.target = d.source)

\* the methods written in a file: [cls, node, at], at = <<statement, position>>
MethodsOf(file) ==
    UNION {{[cls |-> source[file][i].name, node |-> source[file][i].body[j],
             at |-> <<i, j>>] : j \in 1..Len(source[file][i].body)} :
           i \in {n \in 1..Len(source[file]) : source[file][n].kind = "class"}}

Before(a, b) == a[1] < b[1] \/ (a[1] = b[1] /\ a[2] < b[2])

\* the definition of a method that is in effect: no later one has its name
InEffect(file, m) ==
    ~\E o \in MethodsOf(file) :
        o.cls = m.cls /\ o.node.name = m.node.name /\ Before(m.at, o.at)

Extracted(file) ==
    \/ CallsResolved
    \/ (pc = "analyze" /\ \E i \in 1..(cursor - 1) : python_files[i] = file)

\* C5: for a method foo of class Baz in m.py whose body calls self.bar(), the
\* recorded callee key is m.py::Baz.bar, and if Baz.bar is defined in m.py then
\* after call resolution the caller set of m.py::Baz.bar holds m.py::Baz.foo.
C5_SelfCallRecorded ==
    \A m \in MethodsOf(MFile) :
        (/\ Extracted(MFile)
         /\ InEffect(MFile, m)
         /\ [form |-> "self", name |-> "bar"] \in m.node.calls)
        => /\ <<MFile, m.cls, "bar">> \in functions[<<MFile, m.cls, m.node.name>>].calls
           /\ (CallsResolved /\ <<MFile, m.cls, "bar">> \in DOMAIN functions)
                 => <<MFile, m.cls, m.node.name>>
                        \in functions[<<MFile, m.cls, "bar">>].called_by

\* Baz.foo calls self.bar(), Baz.bar is defined, and the calls are resolved
C5_Witness ==
    /\ CallsResolved
    /\ \E m \in MethodsOf(MFile) :
         /\ m.cls = "Baz" /\ m.node.name = "foo" /\ InEffect(MFile, m)
         /\ [form |-> "self", name |-> "bar"] \in m.node.calls
    /\ <<MFile, "Baz", "bar">> \in DOMAIN functions
    /\ <<MFile, "Baz", "foo">> \in functions[<<MFile, "Baz", "bar">>].called_by

\* the call key called_func, recorded in func_name, has no exact match and
\* the same-file name match reaches target
FallbackReaches(func_name, called_func, target) ==
    /\ called_func \notin DOMAIN functions
    /\ functions[target].file_path = functions[func_name].file_path
    /\ functions[target].name = BareName(called_func)

\* C18: when a recorded call key equals a key of the function map, the caller
\* is added to that function's caller set, and to no other function on
\* account of that call: any other function that lists the caller is reached
\* by another of the caller's calls.
C18_ExactMatchOnly ==
    CallsResolved =>
        \A c \in DOMAIN functions :
            \A k \in {x \in functions[c].calls : x \in DOMAIN functions} :
                /\ c \in functions[k].called_by
                /\ \A t \in DOMAIN functions \ {k} :
                      c \in functions[t].called_by
                          => \E k2 \in functions[c].calls \ {k} :
                                 k2 = t \/ FallbackReaches(c, k2, t)

\* the method Baz.bar calls bar(), the key of the top-level function bar: that
\* function gains Baz.bar as caller, the same-named method Baz.bar does not
C18_Witness ==
    /\ CallsResolved
    /\ {<<MFile, NoClass, "bar">>, <<MFile, "Baz", "bar">>} \subseteq DOMAIN functions
    /\ functions[<<MFile, "Baz", "bar">>].calls = {<<MFile, NoClass, "bar">>}
    /\ functions[<<MFile, NoClass, "bar">>].called_by = {<<MFile, "Baz", "bar">>}
    /\ functions[<<MFile, "Baz", "bar">>].called_by = {}

\* C19: when a call key has no exact match, the caller is added to the caller
\* set of every function of the caller's file whose bare name is the last
\* name component of the key, methods of other classes included; a function
\* never gains a caller from another file.
C19_FallbackSameFileByName ==
    CallsResolved =>
        /\ \A c \in DOMAIN functions :
              \A k \in functions[c].calls :
                  \A t \in DOMAIN functions :
                      FallbackReaches(c, k, t) => c \in functions[t].called_by
        /\ \A t \in DOMAIN functions :
              \A c \in functions[t].called_by :
                  functions[c].file_path = functions[t].file_path

\* Baz.foo calls self.bar() and Baz has no bar: the method bar of the class
\* Other gains Baz.foo as caller; bar of lib.py calls foo() and is no caller
\* of Baz.foo, nor is Baz.foo a caller of lib.py's bar
C19_Witness ==
    /\ CallsResolved
    /\ DOMAIN functions = {<<MFile, "Baz", "foo">>, <<MFile, "Other", "bar">>,
                           <<LibFile, NoClass, "bar">>}
    /\ functions[<<MFile, "Baz", "foo">>].calls = {<<MFile, "Baz", "bar">>}
    /\ functions[<<MFile, "Other", "bar">>].called_by = {<<MFile, "Baz", "foo">>}
    /\ functions[<<LibFile, NoClass, "bar">>].calls = {<<LibFile, NoClass, "foo">>}
    /\ functions[<<LibFile, NoClass, "bar">>].called_by = {}
    /\ functions[<<MFile, "Baz", "foo">>].called_by = {}

(***************************************************************************)
(* Claims about imports, the summary and the hierarchy (Spec).             *)
(***************************************************************************)
HasRecord(file, resolved) ==
    /\ file \in DOMAIN import_details
    /\ \E i \in 1..Len(import_details[file]) :
         import_details[file][i].resolved_module = resolved

\* C6: the import record of `from . import sibling` in pkg/mod.py has resolved
\* module pkg.sibling, and that of `from .. import other` in pkg/sub/mod.py has
\* resolved module pkg.other.
C6_RelativeImportRecords ==
    CallsResolved =>
        \A file \in DOMAIN source :
            /\ (file = <<Seg("pkg"), Py("mod")>> /\ InSeq(FromDot, source[file]))
                  => HasRecord(file, <<"pkg", "sibling">>)
            /\ (file = <<Seg("pkg"), Seg("sub"), Py("mod")>>
                   /\ InSeq(FromDotDot, source[file]))
                  => HasRecord(file, <<"pkg", "other">>)

SummaryReturned == pc \in {"returned", "done"}

ParameterCounts == {Len(functions[k].parameters) : k \in DOMAIN functions}

\* C9: average_parameters_per_function is the total parameter count divided by
\* the number of functions, and 0 (with total_functions = 0, no division by
\* zero) when there are no functions; functions with 1 and 3 parameters give 2.
C9_AverageParameters ==
    SummaryReturned =>
        LET n     == Cardinality(DOMAIN functions)
            total == SumParameters(functions, DOMAIN functions)
            avg   == summary.average_parameters_per_function
        IN  /\ summary.total_functions = n
            /\ avg # ZeroDivisionError
            /\ avg.den > 0
            /\ n = 0 => avg = [num |-> 0, den |-> 1]
            /\ n > 0 => avg.num * n = total * avg.den
            /\ (n = 2 /\ ParameterCounts = {1, 3}) => avg = [num |-> 2, den |-> 1]

\* two functions, of 1 and of 3 parameters, and the average 2
C9_Witness ==
    /\ SummaryReturned
    /\ Cardinality(DOMAIN functions) = 2
    /\ ParameterCounts = {1, 3}
    /\ summary.average_parameters_per_function = [num |-> 2, den |-> 1]

FolderNodePaths == {n.path : n \in graph.folder_nodes}

\* C10: every file node's folder attribute is the directory part of the file's
\* path, and a folder node with that path is among the nodes, for every file,
\* files directly under the project root included.
C10_EveryFileHasFolderNode ==
    GraphBuilt =>
        \A n \in graph.file_nodes :
            /\ n.folder = DropLast(n.path, 1)
            /\ n.folder \in FolderNodePaths

\* C10, amended: the folder node exists for every file below a directory of
\* the project; a file directly under the root has the empty folder attribute,
\* for which no folder node is emitted.
C10_FolderNodeUnlessRoot ==
    GraphBuilt =>
        /\ \A n \in graph.file_nodes :
             /\ n.folder = DropLast(n.path, 1)
             /\ Len(n.path) > 1 => n.folder \in FolderNodePaths
             /\ Len(n.path) = 1 => n.folder = <<>>
        /\ <<>> \notin FolderNodePaths

\* a file two directories down and a file directly under the root
C10_Witness ==
    /\ GraphBuilt
    /\ \E n \in graph.file_nodes : Len(n.path) = 3 /\ n.folder \in FolderNodePaths
    /\ \E n \in graph.file_nodes : Len(n.path) = 1 /\ n.folder \notin FolderNodePaths

(***************************************************************************)
(* Claims about the graph's edges (Spec).                                  *)
(***************************************************************************)
FolderIds   == {n.path : n \in graph.folder_nodes}
FileIds     == {n.path : n \in graph.file_nodes}
ModuleIds   == {n.name : n \in graph.module_nodes}
FunctionIds == {n.id : n \in graph.function_nodes}

\* C11: every edge of the graph returned by get_graph_data has a source and a
\* target that are identifiers of nodes of the same graph, for containment,
\* definition, call, called_by and import edges alike.
C11_EdgeEndpointsAreNodes ==
    GraphBuilt =>
        /\ \A e \in graph.folder_contains_file :
              e.source \in FolderIds /\ e.target \in FileIds
        /\ \A e \in graph.file_defines_module :
              e.source \in FileIds /\ e.target \in ModuleIds
        /\ \A e \in graph.module_contains_function :
              e.source \in ModuleIds /\ e.target \in FunctionIds
        /\ \A e \in graph.folder_contains_folder :
              e.source \in FolderIds /\ e.target \in FolderIds
        /\ \A e \in graph.function_call \cup graph.dependency :
              e.source \in FunctionIds /\ e.target \in FunctionIds
        /\ \A e \in graph.file_imports_from_file :
              e.source \in FileIds /\ e.target \in FileIds
        /\ \A e \in graph.module_imports_from_module :
              e.source \in ModuleIds /\ e.target \in ModuleIds

\* C12: a file_defines_module edge is emitted only for a source (.py) file; a
\* file record whose module attribute is absent yields no definition edge.
C12_DefinitionEdgeOnlyForSource ==
    GraphBuilt =>
        \A e \in graph.file_defines_module :
            /\ files[e.source].is_python
            /\ files[e.source].module # None

(***************************************************************************)
(* Claims about the folder hierarchy (Spec).                               *)
(***************************************************************************)
\* C20: after any sequence of _register_file_in_hierarchy calls, every
\* ancestor of every folder of the folder map, up to the root keyed by the
\* empty string, is in the map, and every folder but the root is in the
\* child-folder set of its parent.
C20_AncestorsRegistered ==
    \A p \in DOMAIN folders :
        /\ \A n \in 0..Len(p) : SubSeq(p, 1, n) \in DOMAIN folders
        /\ p # <<>> => p \in folders[DropLast(p, 1)].subfolders

\* the only file lies two directories down: pkg and the root hold no file of
\* their own and are in the map, each listing its child
C20_Witness ==
    /\ DOMAIN files = {<<Seg("pkg"), Seg("sub"), Py("mod")>>}
    /\ DOMAIN folders = {<<>>, <<Seg("pkg")>>, <<Seg("pkg"), Seg("sub")>>}
    /\ folders[<<>>].files = <<>>
    /\ folders[<<Seg("pkg")>>].files = <<>>
    /\ folders[<<>>].subfolders = {<<Seg("pkg")>>}
    /\ folders[<<Seg("pkg")>>].subfolders = {<<Seg("pkg"), Seg("sub")>>}

(***************************************************************************)
(* Claims about syntax errors and the summary's counts (Spec).             *)
(***************************************************************************)
Broken(f) == f \in DOMAIN source /\ HasSyntaxError(source[f])

\* the top-level functions a well-formed file defines
TopLevelDefs(f) ==
    {<<f, NoClass, source[f][i].name>> :
        i \in {j \in 1..Len(source[f]) : source[f][j].kind = "def"}}

\* C13: a source file whose parsing raises a syntax error is skipped entirely:
\* after the analysis no function, class or import record and no function list
\* belongs to it, and every other source file is still extracted.
C13_SyntaxErrorSkipsFile ==
    CallsResolved =>
        \A f \in {python_files[i] : i \in 1..Len(python_files)} :
            IF Broken(f)
            THEN /\ \A k \in DOMAIN functions : k[1] # f
                 /\ \A c \in DOMAIN classes : c[1] # f
                 /\ f \notin DOMAIN import_details
                 /\ f \notin DOMAIN file_functions
                 /\ files[f].functions = <<>>
                 /\ \A m \in DOMAIN modules :
                       \A i \in 1..Len(modules[m].functions) :
                           modules[m].functions[i][1] # f
            ELSE /\ TopLevelDefs(f) \subseteq DOMAIN functions
                 /\ TopLevelDefs(f) # {} => f \in DOMAIN file_functions

\* a file broken after an import and a definition is analyzed first, and a
\* well-formed file analyzed after it has its functions extracted
C13_Witness ==
    /\ CallsResolved
    /\ \E i, j \in 1..Len(python_files) :
         /\ i < j
         /\ source[python_files[i]] = BrokenAfterDef
         /\ TopLevelDefs(python_files[j]) # {}
         /\ ~Broken(python_files[j])
         /\ python_files[j] \in DOMAIN file_functions
         /\ python_files[i] \notin DOMAIN file_functions

\* C14: the summary's total_files is the number of file records of the
\* hierarchy, one per walked file of any extension, as total_folders is the
\* number of non-root folder records and total_modules that of module records.
C14_TotalFilesCountsFileRecords ==
    SummaryReturned =>
        /\ summary.total_files = Cardinality(DOMAIN files)
        /\ summary.total_folders = Cardinality(DOMAIN folders \ {<<>>})
        /\ summary.total_modules = Cardinality(DOMAIN modules)

(***************************************************************************)
(* SpecCli: analyze_project.main run in a working directory with one       *)
(* command-line argument: ".", a directory, a file or a path that does not *)
(* exist.  Until main constructs the analyzer, project_root holds the      *)
(* working directory and fs, source and gitignore_files describe the tree  *)
(* below it; from then on they describe the tree below the analyzer's      *)
(* root.  A root that is a file is the tree {<<>>}.                        *)
(***************************************************************************)
\* the paths below path, relative to it
Below(fset, path) ==
    {SubSeq(f, Len(path) + 1, Len(f)) : f \in {g \in fset : IsPrefix(path, g)}}

RECURSIVE BelowIgnoreFiles(_, _)
BelowIgnoreFiles(gfiles, path) ==
    IF gfiles = <<>> THEN <<>>
    ELSE LET g == Head(gfiles) IN
         IF IsPrefix(path, g.dir)
         THEN <<[dir |-> SubSeq(g.dir, Len(path) + 1, Len(g.dir)),
                 lines |-> g.lines]>> \o BelowIgnoreFiles(Tail(gfiles), path)
         ELSE BelowIgnoreFiles(Tail(gfiles), path)

\* main, lines 17-52: resolve the argument, leave if it does not exist, name
\* the results directory, construct CodeAnalyzer(str(project_path))
Main ==
    /\ pc = "main"
    /\ LET project_path == call.cwd \o call.argv           \* Path(...).resolve()
           exists == call.argv = <<>> \/ IsFile(call.argv) \/ IsDir(call.argv)
           project_folder_name ==
               IF IsFile(call.argv) THEN Last(DropLast(project_path, 1))
               ELSE Last(project_path)
       IN  IF ~exists
           THEN /\ pc' = "exit"
                /\ UNCHANGED <<inputs, call>>
           ELSE /\ call' = [call EXCEPT !.results_dir = project_folder_name]
                /\ project_root' = project_path
                /\ fs' = Below(fs, call.argv)
                /\ source' = [f \in Below(DOMAIN source, call.argv) |->
                                 source[call.argv \o f]]
                /\ gitignore_files' = BelowIgnoreFiles(gitignore_files, call.argv)
                /\ patterns' = _load_gitignore_files(
                                   BelowIgnoreFiles(gitignore_files, call.argv))
                /\ pc' = "constructed"
    /\ UNCHANGED <<walk, maps, cursor, summary, graph>>

\* analyzer.analyze() up to walk_directory(self.project_root): iterdir() of a
\* path that is a file raises NotADirectoryError, which walk_directory does
\* not catch (it catches PermissionError only)
StartWalk ==
    /\ pc = "constructed"
    /\ IF IsFile(<<>>)
       THEN pc' = "raised" /\ UNCHANGED stack
       ELSE /\ pc' = "walk"
            /\ stack' = Unwind(<<[dir |-> <<>>, todo |-> iterdir(<<>>)]>>)
    /\ UNCHANGED <<inputs, maps, all_files, python_files, cursor, summary,
                   graph, call>>

CliTree == {<<Py("m")>>, <<Seg("pkg"), Py("mod")>>, <<<<"notes", "md">>>>}

CliArguments ==
    {<<>>, <<Seg("pkg")>>, <<Py("m")>>, <<Seg("pkg"), Py("mod")>>,
     <<<<"notes", "md">>>>, <<Seg("nowhere")>>}

InitCli ==
    /\ \E fset \in SUBSET CliTree :
         \E src \in [PythonFiles(fset) -> {<<DefF>>, <<FromPkgMod, DefG>>}] :
             Constructed(PlainRoot, fset, src, <<>>)
    /\ pc = "main"
    /\ stack = <<>>
    /\ \E argv \in CliArguments :
         call = [fn |-> "main", cwd |-> PlainRoot, argv |-> argv,
                 is_file |-> argv \in fs, results_dir |-> EmptyStr]

NextCli ==
    \/ Main
    \/ StartWalk
    \/ WalkStep
    \/ WalkDone
    \/ RegisterStep
    \/ AnalyzeFileStep
    \/ BuildCallGraph
    \/ ReturnSummary
    \/ GetGraphData

SpecCli == InitCli /\ [][NextCli]_vars

\* C15: given the path of an existing single file, the analysis runs with the
\* file's parent directory as the project root and goes through to its
\* output; it neither takes the file itself as root nor fails.
C15_SingleFileUsesParent ==
    (call.fn = "main" /\ call.is_file /\ pc \notin {"main", "exit"})
        => /\ project_root = call.cwd \o DropLast(call.argv, 1)
           /\ pc # "raised"

(***************************************************************************)
(* SpecNested: should_ignore called once, with the rules of one ignore     *)
(* file of up to MaxRules lines that lies in a directory below the root.   *)
(* The lines have no leading separator and take the three rule forms: a    *)
(* plain name, a pattern with a separator, a directory-only pattern.       *)
(***************************************************************************)
NestedDirs == {<<Seg("pkg")>>, <<Seg("pkg"), Seg("sub")>>}

NestedLines ==
    [neg : BOOLEAN, lead : {FALSE}, dir : BOOLEAN,
     segs : {<<Py("out")>>, <<Seg("gen"), Py("x")>>, <<Seg("cache")>>}]

\* the entries the rules name, under either directory, and entries elsewhere,
\* among them the same names below a directory vendor
NestedPaths ==
    {D \o l.segs : D \in NestedDirs, l \in NestedLines}
        \cup {<<Seg("vendor")>> \o D \o l.segs : D \in NestedDirs, l \in NestedLines}
        \cup {<<Py("out")>>, <<Seg("cache")>>, <<Seg("pkg")>>}

InitNested ==
    /\ \E D \in NestedDirs, lines \in SeqsUpTo(NestedLines, MaxRules) :
         Constructed(PlainRoot, {}, EmptyDict, <<[dir |-> D, lines |-> lines]>>)
    /\ pc = "call"
    /\ stack = <<>>
    /\ \E path \in NestedPaths, d \in BOOLEAN :
         call = [fn |-> "should_ignore", path |-> path, is_dir |-> d,
                 done |-> FALSE, ret |-> FALSE]

SpecNested == InitNested /\ [][NextIgnore]_vars

\* the lines of the ignore file, none of them a negation
NestedRules ==
    LET lines == gitignore_files[1].lines
    IN  IF \E i \in 1..Len(lines) : lines[i].neg THEN {}
        ELSE {lines[i] : i \in 1..Len(lines)}

\* C16: a rule without a leading separator from an ignore file in a non-root
\* directory D applies relative to D: should_ignore is true for the entry
\* under D that the rule names, for a plain name, for a pattern with a
\* separator and for a directory-only pattern naming a directory.
C16_NestedRuleNamesEntry ==
    (call.fn = "should_ignore" /\ call.done) =>
        \A r \in NestedRules :
            (/\ call.path = gitignore_files[1].dir \o r.segs
             /\ r.dir => call.is_dir)
                => call.ret

(***************************************************************************)
(* SpecStatements: one source file of up to MaxDefs statements, each a     *)
(* function definition or a class statement with one method, so that a     *)
(* class name or a function key can come up in two statements.             *)
(***************************************************************************)
StatementMenu == [cls : {NoClass, "Baz", "Other"}, name : {"foo", "bar"}]

RECURSIVE ToStatements(_)
ToStatements(defs) ==
    IF defs = <<>> THEN <<>>
    ELSE LET d == Head(defs)
             node == [kind |-> "def", name |-> d.name, parameters |-> <<"a">>,
                      calls |-> {}]
         IN  <<IF d.cls = NoClass THEN node
               ELSE [kind |-> "class", name |-> d.cls, body |-> <<node>>]>>
                 \o ToStatements(Tail(defs))

InitStatements ==
    /\ \E defs \in SeqsUpTo(StatementMenu, MaxDefs) :
         Constructed(PlainRoot, {MFile}, [f \in {MFile} |-> ToStatements(defs)],
                     <<>>)
    /\ Analyzing

SpecStatements == InitStatements /\ [][Next]_vars

Occurrences(x, seq) == Cardinality({i \in 1..Len(seq) : seq[i] = x})

\* C21: after extraction every key of the function map is in its file's
\* function list and in its module's function list; every method key is also
\* in its class's method list, and that class is exactly once in the class
\* list of the module.
C21_FunctionsRegisteredEverywhere ==
    CallsResolved =>
        \A k \in DOMAIN functions :
            LET file_path   == functions[k].file_path
                module_name == _get_module_name(file_path)
                class_key   == <<file_path, functions[k].class_name>>
            IN  /\ file_path \in DOMAIN files
                /\ InSeq(k, files[file_path].functions)
                /\ module_name \in DOMAIN modules
                /\ InSeq(k, modules[module_name].functions)
                /\ functions[k].is_method =>
                      /\ class_key \in DOMAIN classes
                      /\ InSeq(k, classes[class_key].methods)
                      /\ Occurrences(class_key, modules[module_name].classes) = 1

(***************************************************************************)
(* SpecModules: projects of up to five source files, among them pkg.py     *)
(* beside the package pkg/__init__.py and two files named mod.py; a file   *)
(* either defines f or imports mod and pkg.mod and defines g.              *)
(***************************************************************************)
ModuleFiles ==
    {<<Py("pkg")>>, <<Seg("pkg"), Py("__init__")>>, <<Seg("pkg"), Py("mod")>>,
     <<Seg("lib"), Py("mod")>>, <<Py("m")>>}

\* import mod
ImportMod == [kind |-> "import", names |-> <<<<"mod">>>>]

ModulePrograms == {<<DefF>>, <<ImportMod, FromPkgMod, DefG>>}

InitModules ==
    /\ \E fset \in SUBSET ModuleFiles :
         \E src \in [fset -> ModulePrograms] :
             Constructed(PlainRoot, fset, src, <<>>)
    /\ Analyzing

SpecModules == InitModules /\ [][Next]_vars

\* import_info.get("resolved_module") or import_info.get("from")
ImportedModule(import_info) ==
    IF ~Falsy(import_info.resolved_module) THEN import_info.resolved_module
    ELSE import_info.from

ImportRecords(f) ==
    IF f \in DOMAIN import_details
    THEN {import_details[f][i] : i \in 1..Len(import_details[f])} ELSE {}

\* C22: an import record yields import edges only when its resolved (else
\* literal) module name is the name of a module of the project; it then
\* yields the file-to-file and the module-to-module edge to that module, each
\* with the imported names and the relative flag; no other import edge exists.
C22_ImportEdgesForProjectModules ==
    GraphBuilt =>
        /\ \A f \in DOMAIN import_details :
              \A r \in ImportRecords(f) :
                  ImportedModule(r) \in DOMAIN modules =>
                      /\ [source |-> f, target |-> modules[ImportedModule(r)].file,
                          imports |-> r.imports, is_relative |-> r.is_relative]
                             \in graph.file_imports_from_file
                      /\ [source |-> _get_module_name(f),
                          target |-> ImportedModule(r),
                          imports |-> r.imports, is_relative |-> r.is_relative]
                             \in graph.module_imports_from_module
        /\ \A e \in graph.file_imports_from_file :
              \E r \in ImportRecords(e.source) :
                  /\ ImportedModule(r) \in DOMAIN modules
                  /\ modules[ImportedModule(r)].file = e.target
                  /\ r.imports = e.imports /\ r.is_relative = e.is_relative
        /\ \A e \in graph.module_imports_from_module :
              \E f \in DOMAIN import_details :
                  /\ _get_module_name(f) = e.source
                  /\ \E r \in ImportRecords(f) :
                        /\ ImportedModule(r) = e.target
                        /\ r.imports = e.imports /\ r.is_relative = e.is_relative

Registered == pc \notin {"walk", "register"}

SourceFileRecords == {f \in DOMAIN files : files[f].is_python}

\* C28: after analysis every source file has a module record of its own: the
\* module named by the file record's module attribute names that file as its
\* owning file, so no two source files share a module and there are as many
\* module records as source files.
C28_OneModulePerSourceFile ==
    Registered =>
        /\ \A f \in SourceFileRecords :
              /\ files[f].module \in DOMAIN modules
              /\ modules[files[f].module].file = f
        /\ Cardinality(DOMAIN modules) = Cardinality(SourceFileRecords)

(***************************************************************************)
(* Claims about the order of the phases of analyze() (Spec).               *)
(***************************************************************************)
\* the statements of a file that leave an import record
ImportStatements(f) ==
    {i \in 1..Len(source[f]) :
        \/ source[f][i].kind = "import"
        \/ source[f][i].kind = "from" /\ ~Falsy(source[f][i].module)}

AllRegistered == \A i \in 1..Len(all_files) : all_files[i] \in DOMAIN files

AllExtracted ==
    \A i \in 1..Len(python_files) :
        LET f == python_files[i] IN
        ~Broken(f) =>
            /\ TopLevelDefs(f) \subseteq DOMAIN functions
            /\ ImportStatements(f) # {} => f \in DOMAIN import_details

AllResolved ==
    \A c \in DOMAIN functions :
        \A k \in functions[c].calls :
            \A t \in CallTargets(functions, c, k) : c \in functions[t].called_by

SomeoneCalled == \E k \in DOMAIN functions : functions[k].called_by # {}

\* C23: analyze() runs its phases in sequence: a step that extracts records
\* of a source file is taken with every walked file registered; the first
\* caller set becomes non-empty only with every source file extracted; the
\* summary is computed only with call resolution finished.
C23_PhasesInSequence ==
    [][/\ <<classes, import_details, file_functions>>'
             # <<classes, import_details, file_functions>> => AllRegistered
       /\ (SomeoneCalled' /\ ~SomeoneCalled) => AllExtracted
       /\ summary' # summary => (AllResolved /\ functions' = functions)]_vars

\* the summary has been returned for two extracted source files and a text
\* file, with a function that is called
C23_Witness ==
    /\ pc = "returned"
    /\ Cardinality(DOMAIN file_functions) = 2
    /\ Len(all_files) = 3
    /\ SomeoneCalled
    /\ summary.functions_that_are_called > 0

(***************************************************************************)
(* Claims about the walk order (SpecModules).  A walker that enumerates    *)
(* every directory in the reverse order finds the files in the reverse of  *)
(* all_files; AnalysisOf gives the records analyze() builds from an order. *)
(***************************************************************************)
RECURSIVE Reverse(_)
Reverse(seq) == IF seq = <<>> THEN <<>> ELSE Reverse(Tail(seq)) \o <<Head(seq)>>

FreshMaps ==
    [folders |-> EmptyDict, files |-> EmptyDict, modules |-> EmptyDict,
     functions |-> EmptyDict, classes |-> EmptyDict,
     import_details |-> EmptyDict, file_functions |-> EmptyDict]

RECURSIVE RegisterAll(_, _)
\* the loop of lines 596-598
RegisterAll(st, paths) ==
    IF paths = <<>> THEN st
    ELSE RegisterAll(_register_file_in_hierarchy(st, Head(paths)), Tail(paths))

RECURSIVE AnalyzeAll(_, _)
\* the loop of lines 616-617
AnalyzeAll(st, paths) ==
    IF paths = <<>> THEN st
    ELSE AnalyzeAll(_analyze_file(st, Head(paths)), Tail(paths))

\* lines 595-620 for the walked files in the given order
AnalysisOf(order) ==
    LET st == AnalyzeAll(RegisterAll(FreshMaps, order), PythonOnly(order))
    IN  [st EXCEPT !.functions = _build_call_graph(st.functions)]

Members(seq) == {seq[i] : i \in 1..Len(seq)}

\* C24: the graph of a project (nodes, edges, hierarchy maps) is the same
\* whatever order the walker enumerates each directory in: the records and
\* the import targets built from the reverse enumeration are the ones built,
\* lists being compared as collections.
C24_SameGraphForAnyWalkOrder ==
    GraphBuilt =>
        LET other == AnalysisOf(Reverse(all_files)) IN
        /\ files = other.files
        /\ functions = other.functions
        /\ classes = other.classes
        /\ import_details = other.import_details
        /\ DOMAIN folders = DOMAIN other.folders
        /\ \A p \in DOMAIN folders :
              /\ folders[p].subfolders = other.folders[p].subfolders
              /\ Members(folders[p].files) = Members(other.folders[p].files)
        /\ DOMAIN modules = DOMAIN other.modules
        /\ \A m \in DOMAIN modules :
              /\ modules[m].file = other.modules[m].file
              /\ modules[m].folder = other.modules[m].folder
              /\ Members(modules[m].functions) = Members(other.modules[m].functions)
              /\ Members(modules[m].classes) = Members(other.modules[m].classes)
        /\ \A f \in DOMAIN import_details :
              \A r \in ImportRecords(f) :
                  ImportTarget(r)
                      = ImportTargetIn(r, InsertionOrder(Reverse(all_files), {}))

(***************************************************************************)
(* Call edges stay within a file (SpecCalls).                              *)
(***************************************************************************)
\* the file named by an identity key
FileOf(key) == key[1]

\* C26: after call resolution every member of a function's caller set is a
\* function of the project defined in the file of that function, and every
\* `calls` and `called_by` edge of the graph joins two functions of one file.
C26_CallersWithinFile ==
    /\ CallsResolved =>
          \A t \in DOMAIN functions :
              \A c \in functions[t].called_by :
                  c \in DOMAIN functions /\ FileOf(c) = FileOf(t)
    /\ GraphBuilt =>
          \A e \in graph.function_call \cup graph.dependency :
              /\ {e.source, e.target} \subseteq DOMAIN functions
              /\ FileOf(e.source) = FileOf(e.target)

\* bar of lib.py calls foo(), a name defined only in m.py, where foo calls
\* bar(), defined in both files: the graph joins foo and bar of m.py and
\* leaves bar of lib.py without a call edge
C26_Witness ==
    /\ GraphBuilt
    /\ DOMAIN functions = {<<MFile, NoClass, "foo">>, <<MFile, NoClass, "bar">>,
                           <<LibFile, NoClass, "bar">>}
    /\ functions[<<LibFile, NoClass, "bar">>].calls = {<<LibFile, NoClass, "foo">>}
    /\ graph.function_call =
           {[source |-> <<MFile, NoClass, "foo">>,
             target |-> <<MFile, NoClass, "bar">>, type |-> "calls"]}
    /\ graph.dependency =
           {CalledByEdge(<<MFile, NoClass, "foo">>, <<MFile, NoClass, "bar">>)}

(***************************************************************************)
(* Function lists and the function count (SpecCalls).                      *)
(***************************************************************************)
RECURSIVE SumModuleFunctions(_)
\* sum(len(m["functions"]) for m in self.modules.values()), over the given
\* module names: the number of module_contains_function edges emitted
SumModuleFunctions(names) ==
    IF names = {} THEN 0
    ELSE LET m == CHOOSE x \in names : TRUE
         IN  Len(modules[m].functions) + SumModuleFunctions(names \ {m})

\* C27: after analysis no function list of a file or of a module holds a key
\* twice, and the function counts of the modules add up to total_functions
\* of the summary.
C27_FunctionListsHaveNoDuplicates ==
    pc \in {"returned", "done"} =>
        /\ \A f \in DOMAIN files :
              \A k \in Members(files[f].functions) :
                  Occurrences(k, files[f].functions) = 1
        /\ \A m \in DOMAIN modules :
              \A k \in Members(modules[m].functions) :
                  Occurrences(k, modules[m].functions) = 1
        /\ SumModuleFunctions(DOMAIN modules) = summary.total_functions

(***************************************************************************)
(* The built-in exclusions and the location of the root (SpecWalk).        *)
(***************************************************************************)
\* the built-in exclusions applied to the segments of the relative path only
SkippedBelowRoot(rel) ==
    \/ should_ignore(rel, IsDir(rel), patterns)
    \/ \E i \in 1..Len(rel) : PartIsSkipped(rel[i])

\* C29: whether _should_skip_path skips an entry of the project is decided by
\* the entry's path relative to the root; the segments of the root's own
\* location never make it skip an entry, so the walk keeps every file that
\* nothing on its relative path excludes.
C29_SkipDependsOnRelativePath ==
    pc # "walk" =>
        /\ \A rel \in fs \cup Dirs(fs) :
              _should_skip_path(rel) = SkippedBelowRoot(rel)
        /\ \A f \in fs :
              Walked(f) <=> \A n \in 1..Len(f) : ~SkippedBelowRoot(SubSeq(f, 1, n))

(***************************************************************************)
(* The reach of the rules of a nested ignore file (SpecNested).            *)
(***************************************************************************)
\* C30: a rule loaded from an ignore file in a non-root directory D never
\* makes should_ignore true for a path that does not lie inside D.
C30_NestedRuleStaysInside ==
    (call.fn = "should_ignore" /\ call.done /\ call.ret) =>
        /\ IsPrefix(gitignore_files[1].dir, call.path)
        /\ Len(call.path) > Len(gitignore_files[1].dir)

(***************************************************************************)
(* SpecTwice: analyze() called up to MaxRuns times on one analyzer over an *)
(* unchanged project of up to three files; a source file imports from      *)
(* pkg.mod and defines f and g, or holds a class with one method and g.    *)
(* call counts the invocations.                                            *)
(***************************************************************************)
MaxRuns == 2

TwiceFiles == {<<Py("m")>>, <<Seg("pkg"), Py("mod")>>, <<<<"notes", "md">>>>}

TwicePrograms ==
    {<<FromPkgMod, DefF, DefG>>,
     <<[kind |-> "class", name |-> "Baz", body |-> <<DefF>>], DefG>>}

InitTwice ==
    /\ \E fset \in SUBSET TwiceFiles :
         \E src \in [PythonFiles(fset) -> TwicePrograms] :
             Constructed(PlainRoot, fset, src, <<>>)
    /\ pc = "walk"
    /\ stack = Unwind(<<[dir |-> <<>>, todo |-> iterdir(<<>>)]>>)
    /\ call = [fn |-> "analyze", runs |-> 1]

\* analyze() entered again after it returned: all_files and python_files
\* are fresh locals (lines 564-565), the records of the analyzer are those
\* the previous invocation left
AnalyzeAgain ==
    /\ pc \in {"returned", "done"}
    /\ call.runs < MaxRuns
    /\ call' = [call EXCEPT !.runs = @ + 1]
    /\ pc' = "walk"
    /\ stack' = Unwind(<<[dir |-> <<>>, todo |-> iterdir(<<>>)]>>)
    /\ all_files' = <<>>
    /\ python_files' = <<>>
    /\ cursor' = 1
    /\ UNCHANGED <<inputs, maps, summary, graph>>

NextTwice ==
    \/ WalkStep
    \/ WalkDone
    \/ RegisterStep
    \/ AnalyzeFileStep
    \/ BuildCallGraph
    \/ ReturnSummary
    \/ GetGraphData
    \/ AnalyzeAgain

SpecTwice == InitTwice /\ [][NextTwice]_vars

\* C25: when analyze() has returned for the second time the function map,
\* the function lists of the files and modules, the method lists of the
\* classes and the import lists of the files are those a single analyze() of
\* a fresh analyzer builds from the same walk.
C25_SecondRunRebuilds ==
    (pc \in {"returned", "done"} /\ call.runs >= 2) =>
        LET once == AnalysisOf(all_files) IN
        /\ functions = once.functions
        /\ file_functions = once.file_functions
        /\ DOMAIN files = DOMAIN once.files
        /\ \A f \in DOMAIN files : files[f].functions = once.files[f].functions
        /\ DOMAIN modules = DOMAIN once.modules
        /\ \A m \in DOMAIN modules :
              modules[m].functions = once.modules[m].functions
        /\ classes = once.classes
        /\ import_details = once.import_details

====
